---- MODULE Spec2Model ----
(***************************************************************************)
(* The audio renderer of the music tutor (src/tools/audio_renderer.py) and *)
(* the engine that calls it (src/main.py), as a state machine.             *)
(*                                                                         *)
(* Numbers.  Python floats are modelled in fixed point: an amplitude, an   *)
(* envelope value or a sample x is the integer x * Scale.  Times are in    *)
(* milliseconds, beats in thousandths of a beat, frequencies in tenths of  *)
(* a hertz.  The sample buffer is kept at FramesPerSecond frames per       *)
(* second instead of the 44100 of the code, and sin() is an eight-point    *)
(* table; every length, index and branch of the code is kept.              *)
(***************************************************************************)
EXTENDS Integers, Sequences, FiniteSets, TLC

VARIABLES
    pc,         \* pc[r]: where request r stands in render_staff_to_midi
    req,        \* req[r]: the arguments of the call
    env,        \* env[r]: what the host did to r (engine, failures it caused, noise)
    loc,        \* loc[r]: the locals of the call (events, buffer, flags)
    ret,        \* ret[r]: the value returned to the caller
    trace,      \* trace[r]: the stages the call has entered, in order
    fs,         \* the files of temp_dir: path -> content, Absent when missing
    engine      \* one MusicTheoryEngine: its cache, cache_stats and last call

vars == <<pc, req, env, loc, ret, trace, fs, engine>>

(***************************************************************************)
(* Bounds of the model.                                                    *)
(***************************************************************************)
MaxStaffLen == 2
FramesPerSecond == 20
MaxSeed == 1
StackDepth == 6

(***************************************************************************)
(* Fixed point.                                                            *)
(***************************************************************************)
Scale == 10 ^ 4

\* int(a / b) for b > 0: Python's int() and astype(int16) cut toward zero.
Trunc(a, b) == IF a >= 0 THEN a \div b ELSE -((-a) \div b)

\* the product of two fixed-point numbers
MulS(a, b) == Trunc(a * b, Scale)

\* Always true.  TLC evaluates an expression when it is first read: a loop
\* written as a fold reads the state left by its first half here, before it
\* starts on the second, and not from inside it
Evaluated(x) == x = x

Abs(a) == IF a >= 0 THEN a ELSE -a

\* the largest element of a non-empty set of integers
SetMax(S) == CHOOSE x \in S : \A y \in S : x >= y

\* term(lo) + ... + term(hi), summed by halves so that the evaluation of a
\* long sum stays shallow
RECURSIVE SumTo(_, _, _)
SumTo(term, lo, hi) ==
    IF lo > hi THEN 0
    ELSE IF lo = hi THEN term[lo]
    ELSE LET mid == (lo + hi) \div 2
         IN  SumTo(term, lo, mid) + SumTo(term, mid + 1, hi)

\* round(x, 1) of x = num / den seconds, in tenths of a second (half to even)
Round1(num, den) ==
    LET q == (10 * num) \div den
        rem2 == 2 * ((10 * num) % den)
    IN  IF rem2 < den THEN q
        ELSE IF rem2 > den THEN q + 1
        ELSE IF q % 2 = 0 THEN q ELSE q + 1

(***************************************************************************)
(* Program constants.                                                      *)
(***************************************************************************)
sample_rate == 44100
Gain == 16384
PcmMax == 32767
DefaultTempo == 120
DefaultInstrument == "Music Theory"
DefaultNoteMs == 500
MinNoteMs == 100
TailMs == 500
PlaceholderNote == 60
PlaceholderVelocity == 100
PlaceholderMs == 1000
SimpleWavMs == 2000
SimpleWavHz == 440
DirectAmplitude == 7000
InharmonicAmplitude == 500
FallbackDurationDs == 20

(***************************************************************************)
(* The timbre table: _get_instrument_parameters.                           *)
(***************************************************************************)
Harm(m, a) == [frequency_multiplier |-> m, amplitude |-> a]

\* a profile whose phases add up to more than the note and whose amplitude
\* is above 1
loud_params ==
    [fundamental_amplitude |-> 4000,
     harmonics |-> <<Harm(2, 2000)>>,
     inharmonicity |-> 10010, noise_level |-> 50,
     attack_time |-> 2000, decay_time |-> 3000, sustain_level |-> 7000,
     release_time |-> 6000, filter_cutoff |-> 8000, overall_amplitude |-> 12000]

default_params ==
    [fundamental_amplitude |-> 4000,
     harmonics |-> <<Harm(2, 2000), Harm(3, 1000), Harm(4, 500), Harm(5, 300)>>,
     inharmonicity |-> 10010, noise_level |-> 50,
     attack_time |-> 200, decay_time |-> 800, sustain_level |-> 7000,
     release_time |-> 3000, filter_cutoff |-> 8000, overall_amplitude |-> 3000]

instrument_params ==
    [n \in {"Music Theory", "Piano", "Violin", "Guitar", "Flute", "Clarinet",
            "Trumpet", "Voice"} |->
     CASE n = "Music Theory" -> default_params
       [] n = "Piano" ->
            [default_params EXCEPT
               !.fundamental_amplitude = 5000,
               !.harmonics = <<Harm(2, 2500), Harm(3, 1500), Harm(4, 800), Harm(5, 400)>>,
               !.overall_amplitude = 4000]
       [] n = "Violin" ->
            [fundamental_amplitude |-> 6000,
             harmonics |-> <<Harm(2, 3000), Harm(3, 2000), Harm(4, 1000), Harm(5, 500)>>,
             inharmonicity |-> 10005, noise_level |-> 30,
             attack_time |-> 100, decay_time |-> 500, sustain_level |-> 8000,
             release_time |-> 4000, filter_cutoff |-> 12000, overall_amplitude |-> 3500]
       [] n = "Guitar" ->
            [fundamental_amplitude |-> 5000,
             harmonics |-> <<Harm(2, 3000), Harm(3, 2000), Harm(4, 1000), Harm(5, 500)>>,
             inharmonicity |-> 10020, noise_level |-> 80,
             attack_time |-> 300, decay_time |-> 1000, sustain_level |-> 6000,
             release_time |-> 5000, filter_cutoff |-> 6000, overall_amplitude |-> 3000]
       [] n = "Flute" ->
            [fundamental_amplitude |-> 7000,
             harmonics |-> <<Harm(2, 4000), Harm(3, 2000), Harm(4, 1000)>>,
             inharmonicity |-> 10001, noise_level |-> 20,
             attack_time |-> 500, decay_time |-> 1000, sustain_level |-> 9000,
             release_time |-> 6000, filter_cutoff |-> 15000, overall_amplitude |-> 2500]
       [] n = "Clarinet" ->
            [fundamental_amplitude |-> 6000,
             harmonics |-> <<Harm(2, 3000), Harm(3, 4000), Harm(4, 2000), Harm(5, 1000)>>,
             inharmonicity |-> 10003, noise_level |-> 40,
             attack_time |-> 200, decay_time |-> 800, sustain_level |-> 8000,
             release_time |-> 3000, filter_cutoff |-> 10000, overall_amplitude |-> 3000]
       [] n = "Trumpet" ->
            [fundamental_amplitude |-> 5000,
             harmonics |-> <<Harm(2, 4000), Harm(3, 3000), Harm(4, 2000), Harm(5, 1000)>>,
             inharmonicity |-> 10002, noise_level |-> 60,
             attack_time |-> 100, decay_time |-> 500, sustain_level |-> 9000,
             release_time |-> 2000, filter_cutoff |-> 12000, overall_amplitude |-> 4000]
       [] n = "Voice" ->
            [fundamental_amplitude |-> 6000,
             harmonics |-> <<Harm(2, 3000), Harm(3, 2000), Harm(4, 1000), Harm(5, 500)>>,
             inharmonicity |-> 10005, noise_level |-> 100,
             attack_time |-> 300, decay_time |-> 1000, sustain_level |-> 7000,
             release_time |-> 4000, filter_cutoff |-> 8000, overall_amplitude |-> 3000]]

\* a lookup whose fall-back is an entry of the table instead of
\* default_params
get_instrument_parameters_piano(instrument) ==
    IF instrument \in DOMAIN instrument_params
    THEN instrument_params[instrument]
    ELSE instrument_params["Piano"]

\* instrument_params.get(instrument, default_params)
get_instrument_parameters(instrument) ==
    IF instrument \in DOMAIN instrument_params
    THEN instrument_params[instrument]
    ELSE default_params

(***************************************************************************)
(* The symbolic score.  An item of an abjad.Staff is a note, a chord or a  *)
(* rest with a written duration num/den; pitches are MIDI numbers, a       *)
(* chord's in ascending order (abjad keeps written_pitches sorted).        *)
(***************************************************************************)
Item(kind, pitches, num, den) ==
    [kind |-> kind, pitches |-> pitches, num |-> num, den |-> den]

Items ==
    { Item("note", <<60>>, 1, 4),
      Item("note", <<69>>, 1, 2),
      Item("chord", <<60, 64, 67>>, 1, 4),
      Item("rest", <<>>, 1, 8) }

RECURSIVE SeqsUpTo(_, _)
SeqsUpTo(S, n) ==
    IF n = 0 THEN {<<>>}
    ELSE LET shorter == SeqsUpTo(S, n - 1)
         IN  shorter \cup {Append(s, x) : s \in {t \in shorter : Len(t) = n - 1}, x \in S}

Staffs == SeqsUpTo(Items, MaxStaffLen)

Tempos == {60, 120}

Instruments == {"Music Theory", "Trumpet", "Kazoo"}

\* beats = 4 * duration.numerator / duration.denominator, in thousandths
Beats(item) == (4 * item.num * 1000) \div item.den

\* an extraction that takes written_pitches[-1], the highest pitch of a chord
RECURSIVE extract_notes_from_staff_top(_)
extract_notes_from_staff_top(staff) ==
    IF staff = <<>> THEN <<>>
    ELSE LET component == Head(staff)
             rest == extract_notes_from_staff_top(Tail(staff))
         IN  CASE component.kind = "note" ->
                    <<[midi_note |-> component.pitches[1],
                       duration |-> Beats(component), type |-> "note"]>> \o rest
               [] component.kind = "chord" ->
                    IF component.pitches # <<>>
                    THEN <<[midi_note |-> component.pitches[Len(component.pitches)],
                            duration |-> Beats(component), type |-> "chord"]>> \o rest
                    ELSE rest
               [] OTHER ->
                    <<[midi_note |-> -1,
                       duration |-> Beats(component), type |-> "rest"]>> \o rest

\* _extract_notes_from_staff: one entry per component, rests included
RECURSIVE extract_notes_from_staff(_)
extract_notes_from_staff(staff) ==
    IF staff = <<>> THEN <<>>
    ELSE LET component == Head(staff)
             rest == extract_notes_from_staff(Tail(staff))
         IN  CASE component.kind = "note" ->
                    <<[midi_note |-> component.pitches[1],
                       duration |-> Beats(component), type |-> "note"]>> \o rest
               [] component.kind = "chord" ->
                    IF component.pitches # <<>>
                    THEN <<[midi_note |-> component.pitches[1],
                            duration |-> Beats(component), type |-> "chord"]>> \o rest
                    ELSE rest
               [] OTHER ->
                    <<[midi_note |-> -1,
                       duration |-> Beats(component), type |-> "rest"]>> \o rest

(***************************************************************************)
(* The note-timeline artifact: a MIDI file, as mido reads it.              *)
(***************************************************************************)
Msg(type, time, note, velocity, tempo) ==
    [type |-> type, time |-> time, note |-> note, velocity |-> velocity, tempo |-> tempo]

Corrupt == [corrupt |-> TRUE]

LilyTicksPerBeat == 384
LilyVelocity == 90
MaxVelocity == 127

\* the length of an item in ticks
ItemTicks(item) == (LilyTicksPerBeat * 4 * item.num) \div item.den

\* note-ons of a chord or note: the first carries the time since the last event
RECURSIVE NoteMsgs(_, _, _, _)
NoteMsgs(type, pitches, delta, velocity) ==
    IF pitches = <<>> THEN <<>>
    ELSE <<Msg(type, delta, Head(pitches), velocity, 0)>>
         \o NoteMsgs(type, Tail(pitches), 0, velocity)

\* the note track of a staff; pending is the time of the rests not yet emitted
RECURSIVE NoteTrack(_, _, _)
NoteTrack(staff, pending, velocity) ==
    IF staff = <<>> THEN <<Msg("end_of_track", pending, 0, 0, 0)>>
    ELSE LET item == Head(staff)
         IN  IF item.kind = "rest" \/ item.pitches = <<>>
             THEN NoteTrack(Tail(staff), pending + ItemTicks(item), velocity)
             ELSE NoteMsgs("note_on", item.pitches, pending, velocity)
                  \o NoteMsgs("note_off", item.pitches, ItemTicks(item), 0)
                  \o NoteTrack(Tail(staff), 0, velocity)

\* what the \tempo 4 = tempo and \midi { } of _create_midi_template ask the
\* engine for: a control track with the tempo, then voices note tracks
LilyMidi(staff, tempo, voices, velocity) ==
    [ticks_per_beat |-> LilyTicksPerBeat,
     tracks |-> <<<<Msg("set_tempo", 0, 0, 0, 60000000 \div tempo),
                    Msg("end_of_track", 0, 0, 0, 0)>>>>
                \o [v \in 1..voices |-> NoteTrack(staff, 0, velocity)]]

\* mido.tempo2bpm
tempo2bpm(us) == 60000000 \div us

\* one message of _extract_midi_notes' inner loop; st holds notes, tempo,
\* track_time and active_notes (note number -> index of its entry in notes)
extract_msg(st, msg, ticks_per_beat) ==
    LET delta_time == (msg.time * 60000) \div (ticks_per_beat * st.tempo)
        track_time == st.track_time + delta_time
        st1 == [st EXCEPT !.track_time = track_time]
    IN  IF msg.type = "set_tempo"
        THEN [st1 EXCEPT !.tempo = tempo2bpm(msg.tempo)]
        ELSE IF msg.type = "note_on" /\ msg.velocity > 0
        THEN [st1 EXCEPT
                !.notes = Append(@, [note |-> msg.note, velocity |-> msg.velocity,
                                     start_time |-> track_time,
                                     duration |-> DefaultNoteMs]),
                !.active_notes = (msg.note :> (Len(st.notes) + 1)) @@ @]
        ELSE IF msg.type = "note_off" \/ (msg.type = "note_on" /\ msg.velocity = 0)
        THEN IF msg.note \in DOMAIN st.active_notes
             THEN LET k == st.active_notes[msg.note]
                      d == track_time - st.notes[k].start_time
                  IN  [st1 EXCEPT
                         !.notes[k].duration = IF d < MinNoteMs THEN DefaultNoteMs ELSE d,
                         !.active_notes = [n \in DOMAIN @ \ {msg.note} |-> @[n]]]
             ELSE st1
        ELSE st1

\* the loop over the messages lo..hi of a track, in order; the span is
\* split in halves so that the evaluation of a long track stays shallow
RECURSIVE extract_span(_, _, _, _, _)
extract_span(st, track, lo, hi, ticks_per_beat) ==
    IF lo > hi THEN st
    ELSE IF lo = hi THEN extract_msg(st, track[lo], ticks_per_beat)
    ELSE LET mid == (lo + hi) \div 2
             left == extract_span(st, track, lo, mid, ticks_per_beat)
         IN  IF Evaluated(left)
             THEN extract_span(left, track, mid + 1, hi, ticks_per_beat)
             ELSE left

\* one track: track_time and active_notes start afresh, tempo and notes
\* carry over from the tracks before
extract_track(st, track, ticks_per_beat) ==
    extract_span([st EXCEPT !.track_time = 0, !.active_notes = <<>>],
                 track, 1, Len(track), ticks_per_beat)

\* the loop over the tracks lo..hi of mid.tracks, in order
RECURSIVE extract_tracks(_, _, _, _, _)
extract_tracks(st, tracks, lo, hi, ticks_per_beat) ==
    IF lo > hi THEN st
    ELSE IF lo = hi THEN extract_track(st, tracks[lo], ticks_per_beat)
    ELSE LET mid == (lo + hi) \div 2
             left == extract_tracks(st, tracks, lo, mid, ticks_per_beat)
         IN  IF Evaluated(left)
             THEN extract_tracks(left, tracks, mid + 1, hi, ticks_per_beat)
             ELSE left

PlaceholderEvent ==
    [note |-> PlaceholderNote, velocity |-> PlaceholderVelocity,
     start_time |-> 0, duration |-> PlaceholderMs]

\* the notes found in a parsed file, before the test note is added
midi_file_notes(mid) ==
    extract_tracks([notes |-> <<>>, tempo |-> DefaultTempo, track_time |-> 0,
                    active_notes |-> <<>>],
                   mid.tracks, 1, Len(mid.tracks), mid.ticks_per_beat).notes

\* _extract_midi_notes: content is what the path holds (Absent: no file);
\* mido is FALSE when the import fails.  Every exception gives []
extract_midi_notes(content, mido) ==
    IF ~mido \/ "ticks_per_beat" \notin DOMAIN content
    THEN <<>>
    ELSE LET notes == midi_file_notes(content)
         IN  IF notes = <<>> THEN <<PlaceholderEvent>> ELSE notes

(***************************************************************************)
(* The additive synthesizer.                                               *)
(***************************************************************************)
\* 2 ** (k / 12) for k = 0..11
SemitoneRatio ==
    <<10000, 10595, 11225, 11892, 12599, 13348, 14142, 14983, 15874, 16818, 17818, 18877>>

\* midi_to_freq: 440 * 2 ** ((midi_note - 69) / 12), in tenths of a hertz
midi_to_freq(midi_note) ==
    LET octave == (midi_note - 69) \div 12
        ratio == SemitoneRatio[((midi_note - 69) % 12) + 1]
    IN  IF octave >= 0
        THEN (4400 * (2 ^ octave) * ratio) \div Scale
        ELSE (4400 * ratio) \div (Scale * (2 ^ (-octave)))

\* sin over one turn, in eighths of a turn
SinTable == <<0, 7071, 10000, 7071, 0, -7071, -10000, -7071>>

\* np.sin(2 * np.pi * freq * multiplier * t) at t = frame / sample_rate;
\* multiplier is in fixed point
Sin(freq, multiplier, frame) ==
    LET partial == (freq * multiplier) \div Scale
        eighths == (8 * partial * frame) \div (10 * FramesPerSecond)
    IN  SinTable[(eighths % 8) + 1]

\* int(seconds * sample_rate)
Frames(ms) == (ms * FramesPerSecond) \div 1000

\* np.random.normal(0, noise_level): the generator is never seeded, so the
\* stream of draws is any one; seed names the stream, draw the position in it
Noise(seed, draw, noise_level) == noise_level * (((seed + draw) % 3) - 1)

\* a chain of tests that takes the attack branch at i = attack_time too
envelope_phase_closed(i, n, params) ==
    LET attack_time == (n * params.attack_time) \div Scale
        decay_time == (n * params.decay_time) \div Scale
        release_time == (n * params.release_time) \div Scale
    IN  IF i <= attack_time THEN "attack"
        ELSE IF i < attack_time + decay_time THEN "decay"
        ELSE IF i < n - release_time THEN "sustain"
        ELSE "release"

\* the branch the if/elif chain of the envelope takes at frame i of a note
\* of n frames
envelope_phase(i, n, params) ==
    LET attack_time == (n * params.attack_time) \div Scale
        decay_time == (n * params.decay_time) \div Scale
        release_time == (n * params.release_time) \div Scale
    IN  IF i < attack_time THEN "attack"
        ELSE IF i < attack_time + decay_time THEN "decay"
        ELSE IF i < n - release_time THEN "sustain"
        ELSE "release"

\* the ADSR envelope of frame i of a note of n frames
Envelope(i, n, params) ==
    LET attack_time == (n * params.attack_time) \div Scale
        decay_time == (n * params.decay_time) \div Scale
        sustain_level == params.sustain_level
        release_time == (n * params.release_time) \div Scale
        phase == envelope_phase(i, n, params)
    IN  CASE phase = "attack" ->
               (i * Scale) \div attack_time
          [] phase = "decay" ->
               Scale - MulS(((i - attack_time) * Scale) \div decay_time,
                            Scale - sustain_level)
          [] phase = "sustain" ->
               sustain_level
          [] OTHER ->
               MulS(sustain_level,
                    Scale - (((i - (n - release_time)) * Scale) \div release_time))

RECURSIVE HarmonicSum(_, _, _, _)
HarmonicSum(harmonics, freq, frame, velocity) ==
    IF harmonics = <<>> THEN 0
    ELSE MulS(MulS(Sin(freq, Head(harmonics).frequency_multiplier * Scale, frame),
                   Head(harmonics).amplitude), velocity)
         + HarmonicSum(Tail(harmonics), freq, frame, velocity)

\* the tone of one frame: fundamental, harmonics, inharmonic partial, noise;
\* velocity is 1.0 on the direct path, which has no dynamics
Tone(freq, frame, velocity, params, noise) ==
    MulS(MulS(Sin(freq, Scale, frame), params.fundamental_amplitude), velocity)
    + HarmonicSum(params.harmonics, freq, frame, velocity)
    + MulS(MulS(Sin(freq, 2 * params.inharmonicity, frame), InharmonicAmplitude), velocity)
    + noise

\* what one note of the artifact path adds to frame start_frame + i
MidiSample(note, k, i, params, seed) ==
    LET start_frame == Frames(note.start_time)
        duration_frames == Frames(note.duration)
        velocity == (note.velocity * Scale) \div MaxVelocity
        tone == Tone(midi_to_freq(note.note), start_frame + i, velocity, params,
                     Noise(seed, k + i, params.noise_level))
    IN  MulS(MulS(tone, Envelope(i, duration_frames, params)), params.overall_amplitude)

\* a write that replaces what the frame holds
Overwrite(old, sample) == sample

\* audio_data[start_frame + i] += ...: the body of the loop over one note
MidiAccumulate(old, sample) == old + sample

\* frame f after the loop over midi_notes has passed the notes lo..hi, from
\* its value old before them: a note with velocity 0 is skipped, a note adds
\* to the frames start_frame <= f < start_frame + duration_frames
RECURSIVE midi_frame(_, _, _, _, _, _, _)
midi_frame(old, f, midi_notes, lo, hi, params, seed) ==
    IF lo > hi THEN old
    ELSE IF lo = hi
    THEN LET note == midi_notes[lo]
             start_frame == Frames(note.start_time)
             duration_frames == Frames(note.duration)
         IN  IF note.velocity # 0 /\ start_frame <= f /\ f < start_frame + duration_frames
             THEN MidiAccumulate(old, MidiSample(note, lo, f - start_frame, params, seed))
             ELSE old
    ELSE LET mid == (lo + hi) \div 2
             left == midi_frame(old, f, midi_notes, lo, mid, params, seed)
         IN  IF Evaluated(left)
             THEN midi_frame(left, f, midi_notes, mid + 1, hi, params, seed)
             ELSE left

\* total_frames of _convert_midi_to_wav_direct
midi_total_frames(midi_notes) ==
    Frames(SetMax({midi_notes[k].start_time + midi_notes[k].duration :
                     k \in 1..Len(midi_notes)}) + TailMs)

\* a synthesis into a buffer of half the frames of total_frames
synthesize_midi_short(midi_notes, instrument, seed) ==
    [f \in 0..((midi_total_frames(midi_notes) \div 2) - 1) |->
       midi_frame(0, f, midi_notes, 1, Len(midi_notes),
                  get_instrument_parameters(instrument), seed)]

\* the indices start_frame + i at which the loop of lines 169-226 writes:
\* a note with velocity 0 is skipped, and the loop over i breaks at the
\* first index that is not below total_frames
midi_writes(midi_notes) ==
    LET total_frames == midi_total_frames(midi_notes)
    IN  UNION {{Frames(midi_notes[k].start_time) + i :
                   i \in {j \in 0..(Frames(midi_notes[k].duration) - 1) :
                            Frames(midi_notes[k].start_time) + j < total_frames}} :
               k \in {n \in DOMAIN midi_notes : midi_notes[n].velocity # 0}}

\* the synthesis of _convert_midi_to_wav_direct, lines 155-226: np.zeros, then
\* the loop; a frame at or past total_frames is never written
synthesize_midi(midi_notes, instrument, seed) ==
    [f \in 0..(midi_total_frames(midi_notes) - 1) |->
       midi_frame(0, f, midi_notes, 1, Len(midi_notes),
                  get_instrument_parameters(instrument), seed)]

\* a conversion at the tempo = 120 of line 147 instead of the caller's
BeatsToMs_default(beats, tempo) == (beats * 60) \div DefaultTempo

\* duration_seconds = duration_beats / beats_per_second, in milliseconds
BeatsToMs(beats, tempo) == (beats * 60) \div tempo

\* note_frames of an entry of notes_data
note_frames_of(note_info, tempo) == Frames(BeatsToMs(note_info.duration, tempo))

\* current_frame when the loop reaches entry k: the frames of the notes and
\* chords before it; a rest is skipped before current_frame is advanced
current_frame_at(notes_data, k, tempo) ==
    SumTo([j \in 1..Len(notes_data) |->
             IF notes_data[j].type = "rest" THEN 0
             ELSE note_frames_of(notes_data[j], tempo)],
          1, k - 1)

\* what one note of the direct path writes to frame current_frame + i
StaffSample(note_info, k, current_frame, i, tempo, params, seed) ==
    LET tone == Tone(midi_to_freq(note_info.midi_note), current_frame + i, Scale,
                     params, Noise(seed, k + i, params.noise_level))
    IN  MulS(MulS(MulS(tone, Envelope(i, note_frames_of(note_info, tempo), params)),
                  DirectAmplitude),
             params.overall_amplitude)

\* audio_data[current_frame + i] = ...: the body of the loop over one note
StaffAssign(old, sample) == sample

\* frame f after the loop over notes_data has passed the entries lo..hi
RECURSIVE staff_frame(_, _, _, _, _, _, _, _)
staff_frame(old, f, notes_data, lo, hi, tempo, params, seed) ==
    IF lo > hi THEN old
    ELSE IF lo = hi
    THEN LET note_info == notes_data[lo]
             current_frame == current_frame_at(notes_data, lo, tempo)
         IN  IF note_info.type # "rest" /\ current_frame <= f
                /\ f < current_frame + note_frames_of(note_info, tempo)
             THEN StaffAssign(old, StaffSample(note_info, lo, current_frame,
                                               f - current_frame, tempo, params, seed))
             ELSE old
    ELSE LET mid == (lo + hi) \div 2
             left == staff_frame(old, f, notes_data, lo, mid, tempo, params, seed)
         IN  IF Evaluated(left)
             THEN staff_frame(left, f, notes_data, mid + 1, hi, tempo, params, seed)
             ELSE left

\* total_frames of _create_musical_wav_from_notes: total_duration is the sum
\* of the beats of every entry, rests included
staff_total_frames(notes_data, tempo) ==
    Frames(BeatsToMs(SumTo([k \in 1..Len(notes_data) |-> notes_data[k].duration],
                           1, Len(notes_data)), tempo))

\* the synthesis of _create_musical_wav_from_notes, lines 362-442
synthesize_staff(notes_data, tempo, instrument, seed) ==
    [f \in 0..(staff_total_frames(notes_data, tempo) - 1) |->
       staff_frame(0, f, notes_data, 1, Len(notes_data), tempo,
                   get_instrument_parameters(instrument), seed)]

\* the indices current_frame + i at which the loop of lines 377-442 writes:
\* a rest is skipped, and the loop over i breaks at the first index that is
\* not below total_frames
staff_writes(notes_data, tempo) ==
    LET total_frames == staff_total_frames(notes_data, tempo)
    IN  UNION {{current_frame_at(notes_data, k, tempo) + i :
                   i \in {j \in 0..(note_frames_of(notes_data[k], tempo) - 1) :
                            current_frame_at(notes_data, k, tempo) + j < total_frames}} :
               k \in {n \in DOMAIN notes_data : notes_data[n].type # "rest"}}

\* params is bound inside the loop over the notes, after the rests are
\* skipped: with rests only, line 445 reads an unbound local
params_unbound(notes_data) == \A k \in 1..Len(notes_data) : notes_data[k].type = "rest"

\* the tone of _create_simple_wav: A4 with two harmonics, linear attack and
\* release, no noise
simple_wav(duration) ==
    LET num_frames == Frames(duration)
    IN  [i \in 0..(num_frames - 1) |->
           LET tone == MulS(Sin(SimpleWavHz * 10, Scale, i), 6000)
                       + MulS(Sin(SimpleWavHz * 10, 2 * Scale, i), 3000)
                       + MulS(Sin(SimpleWavHz * 10, 3 * Scale, i), 2000)
               \* attack_time = num_frames * 0.1, release_time = num_frames * 0.2
               envelope ==
                   IF 10 * i < num_frames
                   THEN (10 * i * Scale) \div num_frames
                   ELSE IF 10 * i > 8 * num_frames
                   THEN (5 * (num_frames - i) * Scale) \div num_frames
                   ELSE Scale
           IN  MulS(MulS(tone, envelope), 5000)]

(***************************************************************************)
(* Post-processing and the WAV container.                                  *)
(***************************************************************************)
\* signal.filtfilt pads the signal by 3 * max(len(a), len(b)) = 15 frames
\* of the code's clock and raises ValueError on a shorter one; no buffer of
\* the model with a frame in it is that short
filtfilt_raises(audio_data) == DOMAIN audio_data = {}

\* signal.butter(4, cutoff / nyquist) then signal.filtfilt: a zero-phase
\* low pass.  The model keeps its shape: linear, symmetric in time, of the
\* same length, passing a share normalized_cutoff of each frame and the
\* rest from its two neighbours
low_pass(audio_data, cutoff_freq) ==
    LET nyquist == sample_rate \div 2
        normalized_cutoff == (cutoff_freq * Scale) \div nyquist
        last == Cardinality(DOMAIN audio_data) - 1
        at(f) == audio_data[IF f < 0 THEN 0 ELSE IF f > last THEN last ELSE f]
    IN  [f \in DOMAIN audio_data |->
           Trunc(2 * normalized_cutoff * at(f)
                 + (Scale - normalized_cutoff) * (at(f - 1) + at(f + 1)),
                 2 * Scale)]

\* (x * 16384).astype(np.int16) with no np.clip before it: the value is cut
\* to an integer and keeps its low 16 bits
to_pcm_wrapped(x) ==
    LET v == Trunc(x * Gain, Scale)
    IN  ((v + 32768) % 65536) - 32768

\* np.clip(x * 16384, -32767, 32767).astype(np.int16) of one sample
to_pcm(x) ==
    LET scaled == x * Gain
    IN  IF scaled > PcmMax * Scale THEN PcmMax
        ELSE IF scaled < (-PcmMax) * Scale THEN -PcmMax
        ELSE Trunc(scaled, Scale)

\* audio_data.tobytes() of int16 samples: two bytes each, low byte first
tobytes(audio_data) ==
    [b \in 1..(2 * Cardinality(DOMAIN audio_data)) |->
       LET u == to_pcm(audio_data[(b - 1) \div 2]) % 65536
       IN  IF b % 2 = 1 THEN u % 256 ELSE u \div 256]

\* wave.open(wav_path, 'w'): mono, 16 bit, the frames of audio_data
wav_file(audio_data) ==
    [nchannels |-> 1, sampwidth |-> 2, framerate |-> FramesPerSecond,
     frames |-> tobytes(audio_data)]

Absent == [absent |-> TRUE]

IsWav(content) == "frames" \in DOMAIN content

\* wav_file.getnframes()
getnframes(content) == Len(content.frames) \div (content.sampwidth * content.nchannels)

\* the int16 sample of frame f (from 1) of a file
sample_at(content, f) ==
    LET u == content.frames[2 * f - 1] + 256 * content.frames[2 * f]
    IN  IF u >= 32768 THEN u - 65536 ELSE u

\* a duration that is not read from the file: the constant of line 607,
\* whatever was written
get_wav_duration_fixed(content) == FallbackDurationDs

\* _get_wav_duration, in tenths of a second: round(frames / sample_rate, 1),
\* and 2.0 when the file cannot be read
get_wav_duration(content) ==
    IF IsWav(content)
    THEN Round1(getnframes(content), content.framerate)
    ELSE FallbackDurationDs

\* _wav_to_base64: the bytes of the file, "" when it cannot be read.  The
\* base64 text stands for the bytes it encodes
wav_to_base64(content) == IF IsWav(content) THEN content.frames ELSE <<>>

(***************************************************************************)
(* The environment of a render: the score-typesetting engine and the       *)
(* failures the host can produce.                                          *)
(***************************************************************************)
\* the note-timeline artifact the engine writes for a score: the score as
\* written, a file mido cannot parse, or the score doubled in StackDepth
\* unison voices at full velocity
Artifact(staff, tempo, mode) ==
    CASE mode = "faithful" -> LilyMidi(staff, tempo, 1, LilyVelocity)
      [] mode = "stacked" -> LilyMidi(staff, tempo, StackDepth, MaxVelocity)
      [] OTHER -> Corrupt

\* a world: the outcomes the environment may choose from
HostileWorld ==
    [install |-> {"program_files", "on_path", "missing"},
     lily |-> {"ok", "rc1", "nomidi", "raise"},
     artifact |-> {"faithful", "corrupt", "stacked"},
     faults |-> BOOLEAN,
     seeds |-> {0},
     staffs |-> Staffs,
     filenames |-> {""},
     tempos |-> Tempos,
     instruments |-> Instruments,
     files |-> {}]

\* a host on which the engine is installed and nothing fails
NominalWorld ==
    [install |-> {"on_path"},
     lily |-> {"ok"},
     artifact |-> {"faithful"},
     faults |-> {FALSE},
     seeds |-> 0..MaxSeed,
     staffs |-> {<<>>, <<Item("note", <<60>>, 1, 4)>>, <<Item("note", <<69>>, 1, 2)>>},
     filenames |-> {""},
     tempos |-> {DefaultTempo},
     instruments |-> {"Trumpet"},
     files |-> {}]

\* the resolution of the files below, the default of mido
GivenTicksPerBeat == 480

\* the messages of a note track: at 120 BPM 480 ticks are 0.5 s, 240 ticks
\* 0.25 s and 48 ticks 0.05 s
MidiAlphabet ==
    {Msg("note_on", 0, 60, LilyVelocity, 0),
     Msg("note_on", 480, 60, LilyVelocity, 0),
     Msg("note_off", 480, 60, 0, 0),
     Msg("note_off", 48, 60, 0, 0),
     Msg("note_on", 240, 60, 0, 0)}

\* control tracks: no tempo event, 60 BPM from the start, 60 BPM from the
\* second beat on
ControlTracks ==
    {<<Msg("end_of_track", 0, 0, 0, 0)>>,
     <<Msg("set_tempo", 0, 0, 0, 1000000), Msg("end_of_track", 0, 0, 0, 0)>>,
     <<Msg("set_tempo", 480, 0, 0, 1000000), Msg("end_of_track", 0, 0, 0, 0)>>}

\* the longest note track of a file, its end_of_track not counted
MaxMsgs == 3

\* MIDI files of two tracks that mido can parse, well-formed or not
GivenFiles ==
    {[ticks_per_beat |-> GivenTicksPerBeat,
      tracks |-> <<control, track \o <<Msg("end_of_track", 0, 0, 0, 0)>>>>] :
         control \in ControlTracks, track \in SeqsUpTo(MidiAlphabet, MaxMsgs)}

\* a host where nothing fails and the file found at midi_path is any of
\* GivenFiles, or one mido cannot parse
MidiWorld ==
    [install |-> {"on_path"},
     lily |-> {"ok"},
     artifact |-> {"corrupt"},
     faults |-> {FALSE},
     seeds |-> {0},
     staffs |-> {<<>>, <<Item("note", <<60>>, 1, 4)>>},
     filenames |-> {""},
     tempos |-> {DefaultTempo},
     instruments |-> {"Trumpet"},
     files |-> GivenFiles]

Requests == {1, 2}

\* f"audio_{uuid.uuid4().hex[:8]}": a name no other call has
UuidName(r) == IF r = 1 THEN "audio_1" ELSE "audio_2"

Filenames == Instruments \cup {"test_scale"} \cup {UuidName(r) : r \in Requests}

\* os.path.join(self.temp_dir, f"{filename}.ly") and its two siblings
Path(filename, ext) == <<filename, ext>>

Paths == {Path(n, e) : n \in Filenames, e \in {"ly", "mid", "wav"}}

exists(path) == fs[path] # Absent

(***************************************************************************)
(* Results.                                                                *)
(***************************************************************************)
NoResult == [pending |-> TRUE]

ErrorResult(message) == [error |-> message]

SuccessResult(filename, audio_base64, tempo, duration, instrument) ==
    [success |-> TRUE,
     midi_path |-> Path(filename, "mid"),
     wav_path |-> Path(filename, "wav"),
     audio_base64 |-> audio_base64,
     tempo |-> tempo,
     duration |-> duration,
     instrument |-> instrument]

\* result.get('success', False), as the callers read a result
Succeeded(result) == "success" \in DOMAIN result /\ result.success

(***************************************************************************)
(* MusicTheoryEngine (main.py): the requests of generate_notation, the     *)
(* cache key and the cache.  An optional argument is <<>> for None and     *)
(* <<v>> for a value v.                                                    *)
(***************************************************************************)
\* the calls one engine serves in a behaviour
MaxCalls == 3

\* generate_notation(question, validation_level, instrument, exercise_type,
\* question_data)
Call(question, validation_level, instrument, exercise_type, question_data) ==
    [question |-> question, validation_level |-> validation_level,
     instrument |-> instrument, exercise_type |-> exercise_type,
     question_data |-> question_data]

\* a question_data with four options, of which the correct one reads text
QuestionData(text) ==
    <<[correct_answer |-> "B", options |-> [A |-> "G_major", B |-> text]]>>

\* the text of the correct option, '' without one
correct_token(question_data) ==
    IF question_data = <<>> THEN ""
    ELSE LET key == question_data[1].correct_answer
         IN  IF key # "" /\ "options" \in DOMAIN question_data[1]
             THEN IF key \in DOMAIN question_data[1].options
                  THEN question_data[1].options[key]
                  ELSE ""
             ELSE ""

\* f"{question}_{validation_level.value}_{instrument}_{exercise_type or ''}_{correct_token}"
key_string(call) ==
    call.question \o "_" \o call.validation_level \o "_" \o call.instrument \o "_"
    \o (IF call.exercise_type = <<>> THEN "" ELSE call.exercise_type[1]) \o "_"
    \o correct_token(call.question_data)

\* hashlib.md5(...).hexdigest(): a digest that no two of the key strings of
\* Calls share
md5_hexdigest(string) == <<"md5", string>>

generate_cache_key(call) == md5_hexdigest(key_string(call))

\* the requests an engine is sent: one scale question, and requests that
\* differ from it in one field or in two
Calls ==
    {Call("Write the scale", "complete", "Piano", <<"Scales">>, QuestionData("C_major")),
     Call("Play the scale", "complete", "Piano", <<"Scales">>, QuestionData("C_major")),
     Call("Write the scale", "basic", "Piano", <<"Scales">>, QuestionData("C_major")),
     Call("Write the scale", "complete", "Violin", <<"Scales">>, QuestionData("C_major")),
     Call("Write the scale", "complete", "Piano", <<"Scales">>, QuestionData("D_major")),
     Call("Write the scale", "complete", "Piano", <<"Scales_C">>, QuestionData("major")),
     Call("Write the scale", "complete", "Piano", <<>>, <<>>)}

\* how the pipeline of lines 78-106 ends for a request: with a result, with
\* one of its three early returns, or with an exception
Outcomes == {"success", "parse", "lookup", "build", "raise"}

\* the result of lines 109-123; computed_for is the request its parsed_data,
\* notation, validation, image and audio were computed from
PipelineResult(call) ==
    [success |-> TRUE, question |-> call.question, instrument |-> call.instrument,
     cached |-> FALSE, computed_for |-> call]

\* _create_error_result, and the message of each way to fail
error_result(outcome, question) ==
    [success |-> FALSE, question |-> question, cached |-> FALSE,
     error |-> CASE outcome = "parse" -> "Failed to parse question"
                 [] outcome = "lookup" -> "Failed to lookup musical data"
                 [] outcome = "build" -> "Failed to build notation"
                 [] OTHER -> "Error in generate_notation"]

NoCall == [none |-> TRUE]

\* __init__, lines 37-42.  results holds the result dicts the engine has
\* made, a dict being known by its place in it: the cache and the callers
\* hold references to them
EngineInit ==
    [cache |-> <<>>,
     cache_stats |-> [hits |-> 0, misses |-> 0, total_requests |-> 0],
     results |-> <<>>,
     calls |-> 0,
     last |-> NoCall]

(***************************************************************************)
(* The state.                                                              *)
(***************************************************************************)
ReqInit ==
    [via |-> "none", asked |-> "", staff |-> <<>>, filename |-> "",
     tempo |-> 0, instrument |-> ""]

EnvInit ==
    [install |-> "on_path", lily |-> "ok", artifact |-> "faithful",
     fault1 |-> "none", fault2 |-> "none", seed1 |-> 0, seed2 |-> 0]

\* params before it is bound
NoParams == [unbound |-> TRUE]

LocInit ==
    [filename |-> "", returncode |-> 0, midi_notes |-> <<>>, notes_data |-> <<>>,
     audio_data |-> <<>>, params_of |-> "", params |-> NoParams,
     wav_success |-> FALSE, audio_base64 |-> <<>>]

Init ==
    /\ pc = [r \in Requests |-> "new"]
    /\ req = [r \in Requests |-> ReqInit]
    /\ env = [r \in Requests |-> EnvInit]
    /\ loc = [r \in Requests |-> LocInit]
    /\ ret = [r \in Requests |-> NoResult]
    /\ trace = [r \in Requests |-> <<>>]
    /\ fs = [p \in Paths |-> Absent]
    /\ engine = EngineInit

Goto(r, label) == pc' = [pc EXCEPT ![r] = label]

Enter(r, stage) == trace' = [trace EXCEPT ![r] = Append(@, stage)]

Return(r, result) ==
    /\ ret' = [ret EXCEPT ![r] = result]
    /\ Goto(r, "done")

(***************************************************************************)
(* AudioRenderer.__init__ and _find_lilypond.                              *)
(***************************************************************************)
\* a known install path, else lilypond on PATH, else FileNotFoundError,
\* which __init__ and MusicTheoryEngine.__init__ let through
find_lilypond_raises(install) == install = "missing"

Construct(r, w) ==
    /\ pc[r] = "new"
    /\ \E install \in w.install :
          /\ env' = [env EXCEPT ![r].install = install]
          /\ Goto(r, IF find_lilypond_raises(install) THEN "raised" ELSE "ready")
    /\ UNCHANGED <<req, loc, ret, trace, fs, engine>>

(***************************************************************************)
(* The two ways into render_staff_to_midi.                                 *)
(***************************************************************************)
\* render_staff_to_midi(staff, filename, tempo, instrument)
RenderCall(r, w) ==
    /\ pc[r] = "ready"
    /\ \E staff \in w.staffs, filename \in w.filenames,
          tempo \in w.tempos, instrument \in w.instruments :
          req' = [req EXCEPT ![r] =
                    [via |-> "renderer", asked |-> instrument, staff |-> staff,
                     filename |-> filename, tempo |-> tempo, instrument |-> instrument]]
    /\ Goto(r, "template")
    /\ UNCHANGED <<env, loc, ret, trace, fs, engine>>

\* the positional binding of self.audio_renderer.render_staff_to_midi(staff,
\* instrument) against (staff, filename=None, tempo=120, instrument="Music Theory")
generate_audio_args(staff, instrument) ==
    [staff |-> staff, filename |-> instrument, tempo |-> DefaultTempo,
     instrument |-> DefaultInstrument]

\* MusicTheoryEngine._generate_audio(staff, instrument), as generate_notation
\* calls it with the instrument of the request
GenerateAudio(r, w) ==
    /\ pc[r] = "ready"
    /\ \E staff \in w.staffs, instrument \in w.instruments :
          LET args == generate_audio_args(staff, instrument)
          IN  req' = [req EXCEPT ![r] =
                        [via |-> "engine", asked |-> instrument, staff |-> args.staff,
                         filename |-> args.filename, tempo |-> args.tempo,
                         instrument |-> args.instrument]]
    /\ Goto(r, "template")
    /\ UNCHANGED <<env, loc, ret, trace, fs, engine>>

(***************************************************************************)
(* render_staff_to_midi, step by step.  Each step reads or writes temp_dir *)
(* once; a failure the host may produce is a choice of the step.           *)
(***************************************************************************)
\* lines 60-72: the filename, and the LilyPond file with the score in it
WriteTemplate(r) ==
    /\ pc[r] = "template"
    /\ LET filename == IF req[r].filename = "" THEN UuidName(r) ELSE req[r].filename
       IN  /\ loc' = [loc EXCEPT ![r].filename = filename]
           /\ fs' = [fs EXCEPT ![Path(filename, "ly")] =
                        [staff |-> req[r].staff, tempo |-> req[r].tempo]]
    /\ Goto(r, "lilypond")
    /\ UNCHANGED <<req, env, ret, trace, engine>>

LilyOutcomes(w) ==
    {[lily |-> "ok", artifact |-> m, file |-> Corrupt] : m \in w.artifact}
    \cup {[lily |-> l, artifact |-> "faithful", file |-> Corrupt] : l \in w.lily \ {"ok"}}
    \cup {[lily |-> "ok", artifact |-> "given", file |-> f] : f \in w.files}

\* lines 75-79: subprocess.run of the engine on ly_path.  The engine reads the
\* file that is at ly_path now; without one it fails
RunLilyPond(r, w) ==
    /\ pc[r] = "lilypond"
    /\ \E o \in LilyOutcomes(w) :
          LET ly == fs[Path(loc[r].filename, "ly")]
              midi_path == Path(loc[r].filename, "mid")
          IN  /\ env' = [env EXCEPT ![r].lily = o.lily, ![r].artifact = o.artifact]
              /\ IF o.lily = "raise"
                 THEN /\ Return(r, ErrorResult("Audio generation failed"))
                      /\ Enter(r, "Failed")
                      /\ UNCHANGED <<loc, fs>>
                 ELSE /\ Goto(r, "check_midi")
                      /\ UNCHANGED <<ret, trace>>
                      /\ IF o.lily = "ok" /\ ly # Absent
                         THEN /\ fs' = [fs EXCEPT ![midi_path] =
                                          IF o.artifact = "given" THEN o.file
                                          ELSE Artifact(ly.staff, ly.tempo, o.artifact)]
                              /\ loc' = [loc EXCEPT ![r].returncode = 0]
                         ELSE /\ fs' = fs
                              /\ loc' = [loc EXCEPT ![r].returncode =
                                           IF o.lily = "nomidi" /\ ly # Absent THEN 0 ELSE 1]
    /\ UNCHANGED <<req, engine>>

\* lines 82-84 and 108-111: the return code, then os.path.exists(midi_path)
CheckMidi(r) ==
    /\ pc[r] = "check_midi"
    /\ IF loc[r].returncode # 0
       THEN /\ Return(r, ErrorResult("LilyPond failed"))
            /\ Enter(r, "Failed")
       ELSE IF ~exists(Path(loc[r].filename, "mid"))
       THEN /\ Return(r, ErrorResult("MIDI file not found"))
            /\ Enter(r, "Failed")
       ELSE /\ Goto(r, "extract_midi")
            /\ UNCHANGED <<ret, trace>>
    /\ UNCHANGED <<req, env, loc, fs, engine>>

\* _convert_midi_to_wav_direct, lines 140-153: the imports and
\* _extract_midi_notes.  A failed import or no notes gives False, and
\* _convert_midi_to_wav_with_staff goes on to the fallback
ExtractMidi(r, w) ==
    /\ pc[r] = "extract_midi"
    /\ \E fault \in w.faults :
          LET content == fs[Path(loc[r].filename, "mid")]
              midi_notes == extract_midi_notes(content, ~fault)
              placeholder == ~fault /\ "ticks_per_beat" \in DOMAIN content
                             /\ midi_file_notes(content) = <<>>
          IN  /\ env' = [env EXCEPT ![r].fault1 = IF fault THEN "import" ELSE "none"]
              /\ loc' = [loc EXCEPT ![r].midi_notes = midi_notes]
              /\ trace' = [trace EXCEPT ![r] =
                             @ \o <<"TryArtifactExtraction">>
                               \o (IF placeholder THEN <<"PlaceholderEvent">> ELSE <<>>)]
              /\ Goto(r, IF midi_notes = <<>> THEN "extract_staff" ELSE "synth_midi")
    /\ UNCHANGED <<req, ret, fs, engine>>

\* lines 155-226; an exception is caught at line 248 and gives False
SynthesizeMidi(r, w) ==
    /\ pc[r] = "synth_midi"
    /\ Enter(r, "Synthesize")
    /\ \E fault \in w.faults :
          IF fault
          THEN /\ env' = [env EXCEPT ![r].fault1 = "synth"]
               /\ loc' = loc
               /\ Goto(r, "extract_staff")
          ELSE \E seed \in w.seeds :
                  /\ env' = [env EXCEPT ![r].seed1 = seed]
                  /\ loc' = [loc EXCEPT
                               ![r].audio_data =
                                   synthesize_midi(loc[r].midi_notes, req[r].instrument, seed),
                               ![r].params_of = req[r].instrument,
                               ![r].params = get_instrument_parameters(req[r].instrument)]
                  /\ Goto(r, "filter_midi")
    /\ UNCHANGED <<req, ret, fs, engine>>

\* lines 228-233
FilterMidi(r, w) ==
    /\ pc[r] = "filter_midi"
    /\ Enter(r, "Filter")
    /\ \E fault \in w.faults :
          IF fault \/ filtfilt_raises(loc[r].audio_data)
          THEN /\ env' = [env EXCEPT ![r].fault1 = IF fault THEN "filter" ELSE "none"]
               /\ loc' = [loc EXCEPT ![r].audio_data = <<>>]
               /\ Goto(r, "extract_staff")
          ELSE /\ env' = env
               /\ loc' = [loc EXCEPT ![r].audio_data =
                            low_pass(@, get_instrument_parameters(req[r].instrument).filter_cutoff)]
               /\ Goto(r, "encode_midi")
    /\ UNCHANGED <<req, ret, fs, engine>>

\* lines 235-246: quantize and write the WAV file; True
EncodeMidi(r, w) ==
    /\ pc[r] = "encode_midi"
    /\ Enter(r, "Encode")
    /\ \E fault \in w.faults :
          IF fault
          THEN /\ env' = [env EXCEPT ![r].fault1 = "encode"]
               /\ loc' = [loc EXCEPT ![r].audio_data = <<>>]
               /\ fs' = fs
               /\ Goto(r, "extract_staff")
          ELSE /\ env' = env
               /\ fs' = [fs EXCEPT ![Path(loc[r].filename, "wav")] =
                           wav_file(loc[r].audio_data)]
               /\ loc' = [loc EXCEPT ![r].audio_data = <<>>, ![r].wav_success = TRUE]
               /\ Goto(r, "check_wav")
    /\ UNCHANGED <<req, ret, engine>>

\* _create_instrument_synthesis_fallback, lines 332-336
ExtractStaff(r) ==
    /\ pc[r] = "extract_staff"
    /\ Enter(r, "TryDirectExtraction")
    /\ LET notes_data == extract_notes_from_staff(req[r].staff)
       IN  /\ loc' = [loc EXCEPT ![r].notes_data = notes_data]
           /\ Goto(r, IF notes_data = <<>> THEN "simple_wav" ELSE "synth_staff")
    /\ UNCHANGED <<req, env, ret, fs, engine>>

\* return self._create_simple_wav(wav_path, 2.0): the function writes the
\* file (or catches its own exception) and returns nothing, so the fallback
\* returns None
SimpleWav(r, w) ==
    /\ pc[r] = "simple_wav"
    /\ Enter(r, "PlaceholderEvent")
    /\ \E fault \in w.faults :
          /\ env' = [env EXCEPT ![r].fault2 = IF fault THEN "simple" ELSE "none"]
          /\ fs' = IF fault THEN fs
                   ELSE [fs EXCEPT ![Path(loc[r].filename, "wav")] =
                           wav_file(simple_wav(SimpleWavMs))]
    /\ loc' = [loc EXCEPT ![r].wav_success = FALSE]
    /\ Goto(r, "check_wav")
    /\ UNCHANGED <<req, ret, engine>>

\* _create_musical_wav_from_notes, lines 353-442; an exception is caught at
\* line 464 and gives False
SynthesizeStaff(r, w) ==
    /\ pc[r] = "synth_staff"
    /\ Enter(r, "Synthesize")
    /\ \E fault \in w.faults :
          IF fault
          THEN /\ env' = [env EXCEPT ![r].fault2 = "synth"]
               /\ loc' = [loc EXCEPT ![r].wav_success = FALSE]
               /\ Goto(r, "check_wav")
          ELSE \E seed \in w.seeds :
                  /\ env' = [env EXCEPT ![r].seed2 = seed]
                  /\ loc' = [loc EXCEPT
                               ![r].audio_data =
                                   synthesize_staff(loc[r].notes_data, req[r].tempo,
                                                    req[r].instrument, seed),
                               ![r].params_of = req[r].instrument,
                               ![r].params =
                                   IF params_unbound(loc[r].notes_data) THEN @
                                   ELSE get_instrument_parameters(req[r].instrument)]
                  /\ Goto(r, "filter_staff")
    /\ UNCHANGED <<req, ret, fs, engine>>

\* lines 444-449
FilterStaff(r, w) ==
    /\ pc[r] = "filter_staff"
    /\ Enter(r, "Filter")
    /\ \E fault \in w.faults :
          IF fault \/ params_unbound(loc[r].notes_data) \/ filtfilt_raises(loc[r].audio_data)
          THEN /\ env' = [env EXCEPT ![r].fault2 = IF fault THEN "filter" ELSE "none"]
               /\ loc' = [loc EXCEPT ![r].audio_data = <<>>, ![r].wav_success = FALSE]
               /\ Goto(r, "check_wav")
          ELSE /\ env' = env
               /\ loc' = [loc EXCEPT ![r].audio_data =
                            low_pass(@, get_instrument_parameters(req[r].instrument).filter_cutoff)]
               /\ Goto(r, "encode_staff")
    /\ UNCHANGED <<req, ret, fs, engine>>

\* lines 451-462
EncodeStaff(r, w) ==
    /\ pc[r] = "encode_staff"
    /\ Enter(r, "Encode")
    /\ \E fault \in w.faults :
          IF fault
          THEN /\ env' = [env EXCEPT ![r].fault2 = "encode"]
               /\ loc' = [loc EXCEPT ![r].audio_data = <<>>, ![r].wav_success = FALSE]
               /\ fs' = fs
          ELSE /\ env' = env
               /\ fs' = [fs EXCEPT ![Path(loc[r].filename, "wav")] =
                           wav_file(loc[r].audio_data)]
               /\ loc' = [loc EXCEPT ![r].audio_data = <<>>, ![r].wav_success = TRUE]
    /\ Goto(r, "check_wav")
    /\ UNCHANGED <<req, ret, engine>>

\* lines 89 and 106-107: wav_success and os.path.exists(wav_path)
CheckWav(r) ==
    /\ pc[r] = "check_wav"
    /\ IF loc[r].wav_success /\ exists(Path(loc[r].filename, "wav"))
       THEN /\ Goto(r, "read_base64")
            /\ UNCHANGED <<ret, trace>>
       ELSE /\ Return(r, ErrorResult("Failed to convert MIDI to WAV"))
            /\ Enter(r, "Failed")
    /\ UNCHANGED <<req, env, loc, fs, engine>>

\* line 92
ReadBase64(r) ==
    /\ pc[r] = "read_base64"
    /\ loc' = [loc EXCEPT ![r].audio_base64 =
                 wav_to_base64(fs[Path(loc[r].filename, "wav")])]
    /\ Goto(r, "read_duration")
    /\ UNCHANGED <<req, env, ret, trace, fs, engine>>

\* lines 95-105
ReadDuration(r) ==
    /\ pc[r] = "read_duration"
    /\ Return(r, SuccessResult(loc[r].filename, loc[r].audio_base64, req[r].tempo,
                               get_wav_duration(fs[Path(loc[r].filename, "wav")]),
                               req[r].instrument))
    /\ Enter(r, "Success")
    /\ UNCHANGED <<req, env, loc, fs, engine>>

\* cleanup_temp_files: every .ly, .mid and .wav of temp_dir is removed,
\* whoever wrote it
CleanupTempFiles(r) ==
    /\ pc[r] \in {"ready", "done"}
    /\ \E p \in Paths : exists(p)
    /\ fs' = [p \in Paths |-> Absent]
    /\ UNCHANGED <<pc, req, env, loc, ret, trace, engine>>

Step(r, w) ==
    \/ Construct(r, w)
    \/ RenderCall(r, w)
    \/ GenerateAudio(r, w)
    \/ WriteTemplate(r)
    \/ RunLilyPond(r, w)
    \/ CheckMidi(r)
    \/ ExtractMidi(r, w)
    \/ SynthesizeMidi(r, w)
    \/ FilterMidi(r, w)
    \/ EncodeMidi(r, w)
    \/ ExtractStaff(r)
    \/ SimpleWav(r, w)
    \/ SynthesizeStaff(r, w)
    \/ FilterStaff(r, w)
    \/ EncodeStaff(r, w)
    \/ CheckWav(r)
    \/ ReadBase64(r)
    \/ ReadDuration(r)

\* one render on a host where anything may fail
Next == Step(1, HostileWorld)

Spec == Init /\ [][Next]_vars

\* two renderers on one host where nothing fails, their calls interleaved,
\* either of them cleaning temp_dir when it is not rendering
NextPair ==
    \E r \in Requests :
        \/ Step(r, NominalWorld)
        \/ CleanupTempFiles(r)

SpecPair == Init /\ [][NextPair]_vars

\* one render of a file of MidiWorld
NextMidi == Step(1, MidiWorld)

SpecMidi == Init /\ [][NextMidi]_vars

(***************************************************************************)
(* generate_notation and clear_cache on one engine.                        *)
(***************************************************************************)
\* a cache that stores whatever the pipeline ended with
cache_after_always(cache, cache_key, result, outcome) == (cache_key :> result) @@ cache

\* the cache after a miss: self.cache[cache_key] = result of line 126 is
\* reached only when no early return and no exception came before it
cache_after(cache, cache_key, result, outcome) ==
    IF outcome = "success" THEN (cache_key :> result) @@ cache ELSE cache

\* generate_notation, lines 65-133: a key in the cache is a hit, and the
\* stored dict is marked cached and returned; else a miss, and the result
\* of the pipeline is stored unless it is an error
GenerateNotation(call, outcome) ==
    /\ engine.calls < MaxCalls
    /\ LET cache_key == generate_cache_key(call)
           stats == engine.cache_stats
       IN  IF cache_key \in DOMAIN engine.cache
           THEN LET cached_result == engine.cache[cache_key]
                IN  engine' =
                        [engine EXCEPT
                           !.cache_stats = [stats EXCEPT
                                              !.hits = @ + 1,
                                              !.total_requests = @ + 1],
                           !.results[cached_result].cached = TRUE,
                           !.calls = @ + 1,
                           !.last = [call |-> call, hit |-> TRUE,
                                     returned |-> cached_result]]
           ELSE LET counted == [stats EXCEPT !.misses = @ + 1,
                                             !.total_requests = @ + 1]
                    result == Len(engine.results) + 1
                IN  engine' =
                        [engine EXCEPT
                           !.cache_stats = counted,
                           !.results = Append(@, IF outcome = "success"
                                                 THEN PipelineResult(call)
                                                 ELSE error_result(outcome, call.question)),
                           !.cache = cache_after(@, cache_key, result, outcome),
                           !.calls = @ + 1,
                           !.last = [call |-> call, hit |-> FALSE,
                                     returned |-> result]]
    /\ UNCHANGED <<pc, req, env, loc, ret, trace, fs>>

\* a clear_cache that empties the cache and keeps the counters
ClearCache_entries_only ==
    /\ engine.calls < MaxCalls
    /\ engine' = [engine EXCEPT !.cache = <<>>, !.calls = @ + 1, !.last = NoCall]
    /\ UNCHANGED <<pc, req, env, loc, ret, trace, fs>>

\* clear_cache, lines 422-429
ClearCache ==
    /\ engine.calls < MaxCalls
    /\ engine' = [engine EXCEPT
                    !.cache = <<>>,
                    !.cache_stats = [hits |-> 0, misses |-> 0, total_requests |-> 0],
                    !.calls = @ + 1,
                    !.last = NoCall]
    /\ UNCHANGED <<pc, req, env, loc, ret, trace, fs>>

\* one engine, sent any requests in any order
NextEngine ==
    \/ \E call \in Calls, outcome \in Outcomes : GenerateNotation(call, outcome)
    \/ ClearCache

SpecEngine == Init /\ [][NextEngine]_vars

(***************************************************************************)
(* What a call has done, read from the state.                              *)
(***************************************************************************)
Done(r) == pc[r] = "done"

\* the call has entered the stage
Has(r, stage) == \E i \in DOMAIN trace[r] : trace[r][i] = stage

\* the failures the host caused after extraction: none
NoStageFault(r) == env[r].fault1 \in {"none", "import"} /\ env[r].fault2 = "none"

\* the lowest of the pitches of a note or chord
LowestPitch(item) == -SetMax({-item.pitches[i] : i \in DOMAIN item.pitches})

\* (4 * numerator / denominator) * 60 / T seconds, in milliseconds
NotatedMs(item, tempo) == (4 * item.num * 60000) \div (item.den * tempo)

\* a score with no note in it: empty, or rests only
ZeroEventScore(staff) == \A k \in DOMAIN staff : staff[k].kind = "rest"

\* a duration, in tenths of a second, of the placeholder's one second, the
\* tail the synthesizer appends to its buffer allowed for
AboutOneSecond(d) == d \in (PlaceholderMs \div 100)..((PlaceholderMs + TailMs) \div 100)

\* render_staff_to_midi of the request q on a host where nothing fails and
\* nothing else runs: the artifact path, from the template to the result
RenderedAlone(q, e, r) ==
    LET filename == IF q.filename = "" THEN UuidName(r) ELSE q.filename
        midi_notes == extract_midi_notes(Artifact(q.staff, q.tempo, "faithful"), TRUE)
        audio_data == low_pass(synthesize_midi(midi_notes, q.instrument, e.seed1),
                               get_instrument_parameters(q.instrument).filter_cutoff)
        wav == wav_file(audio_data)
    IN  SuccessResult(filename, wav_to_base64(wav), q.tempo, get_wav_duration(wav),
                      q.instrument)

\* s is x quantized: x * 16384 cut to an integer when that lies within
\* [-32767, 32767], the nearer bound when it does not
Quantized(x, s) ==
    /\ s \in (-PcmMax)..PcmMax
    /\ x * Gain >= PcmMax * Scale => s = PcmMax
    /\ x * Gain <= (-PcmMax) * Scale => s = -PcmMax
    /\ (x * Gain < PcmMax * Scale /\ x * Gain > (-PcmMax) * Scale) =>
           s = Trunc(x * Gain, Scale)

\* the file at path holds the buffer audio_data, quantized, frame for frame
HoldsQuantized(content, audio_data) ==
    /\ IsWav(content)
    /\ getnframes(content) = Cardinality(DOMAIN audio_data)
    /\ \A f \in DOMAIN audio_data : Quantized(audio_data[f], sample_at(content, f + 1))

(***************************************************************************)
(* The claims.                                                             *)
(***************************************************************************)
\* C1: when the engine fails during a render (non-zero return code, or no
\* note-timeline artifact), and nothing else fails, the render falls back to
\* direct extraction, goes on to Synthesize and does not end failed.
C1_EngineFailureFallsBack ==
    \A r \in Requests :
        (Done(r) /\ env[r].lily \in {"rc1", "nomidi"} /\ NoStageFault(r)) =>
            /\ Has(r, "TryDirectExtraction")
            /\ Has(r, "Synthesize")
            /\ ~Has(r, "Failed")

\* C2: a render of a score with no note in it (empty, or rests only), the
\* engine having run and no stage after extraction having raised, uses the
\* placeholder event and ends with success=true and a duration of about one
\* second; it never ends failed.
C2_EmptyScoreSucceeds ==
    \A r \in Requests :
        (Done(r) /\ ZeroEventScore(req[r].staff) /\ env[r].lily = "ok" /\ NoStageFault(r)) =>
            /\ Has(r, "PlaceholderEvent")
            /\ Succeeded(ret[r])
            /\ AboutOneSecond(ret[r].duration)

\* C3: every result of render_staff_to_midi carries a boolean success field:
\* true on the Success state, false together with an error string on every
\* failure path.
C3_SuccessFieldAlways ==
    \A r \in Requests :
        Done(r) =>
            /\ "success" \in DOMAIN ret[r]
            /\ ret[r].success \in BOOLEAN
            /\ Has(r, "Success") => ret[r].success
            /\ Has(r, "Failed") => (~ret[r].success /\ "error" \in DOMAIN ret[r])

\* C4: no failure of the audio subsystem raises past the facade, the engine
\* being absent when the renderer is constructed included: no call, and no
\* construction, ends in an exception, and a finished call has a result.
C4_NothingRaises ==
    \A r \in Requests :
        /\ pc[r] # "raised"
        /\ Done(r) => ret[r] # NoResult

\* C5: within one render no stage runs twice, and once Synthesize has been
\* entered no extraction is entered again: an exception in Synthesize, Filter
\* or Encode does not lead to a second extraction and synthesis.
C5_ChainOnlyForward ==
    \A r \in Requests :
        \A i, j \in DOMAIN trace[r] :
            i < j =>
                /\ trace[r][i] # trace[r][j]
                /\ trace[r][i] = "Synthesize" =>
                       trace[r][j] \notin {"TryArtifactExtraction", "TryDirectExtraction"}

\* C6: the placeholder event is used only after direct extraction from the
\* staff has been tried: an artifact that parses with zero note events counts
\* as a failed extraction, and direct extraction comes next.
C6_PlaceholderAfterDirect ==
    \A r \in Requests :
        \A i \in DOMAIN trace[r] :
            trace[r][i] = "PlaceholderEvent" =>
                \E j \in 1..(i - 1) : trace[r][j] = "TryDirectExtraction"

\* C7: synthesis is a function of its inputs: two runs of the same synthesis
\* path on the same events (or staff notes), the same instrument and the same
\* tempo hold the same sample buffer, sample for sample.
C7_SynthesisDeterministic ==
    \A r, s \in Requests :
        ( /\ pc[r] \in {"filter_midi", "filter_staff"}
          /\ pc[s] = pc[r]
          /\ loc[r].midi_notes = loc[s].midi_notes
          /\ loc[r].notes_data = loc[s].notes_data
          /\ req[r].instrument = req[s].instrument
          /\ req[r].tempo = req[s].tempo ) =>
            loc[r].audio_data = loc[s].audio_data

\* C8: two renders running concurrently share no mutable state: under every
\* interleaving, cleanup_temp_files of the other renderer included, the
\* result of each (audio bytes, duration) is the result it has running alone.
C8_RendersAsAlone ==
    \A r \in Requests :
        Done(r) => ret[r] = RenderedAlone(req[r], env[r], r)

\* C9: for every instrument name given to MusicTheoryEngine.generate_notation,
\* the audio is synthesized with the profile the timbre table gives for that
\* name, and the instrument field of the audio result is that name.
C9_EngineInstrumentHonoured ==
    \A r \in Requests :
        (Done(r) /\ req[r].via = "engine" /\ Succeeded(ret[r])) =>
            /\ get_instrument_parameters(loc[r].params_of)
                   = get_instrument_parameters(req[r].asked)
            /\ ret[r].instrument = req[r].asked

\* C10: every sample written to the output container lies in
\* [-32767, 32767]: a value that, scaled by 16384, leaves the range is stored
\* as the nearer bound, never wrapped around, by each of the three writers
\* (artifact path, direct path, placeholder).
C10_SamplesClipped ==
    [][\A r \in Requests :
          LET written == fs'[Path(loc[r].filename, "wav")]
          IN  /\ (pc[r] \in {"encode_midi", "encode_staff"} /\ loc'[r].wav_success) =>
                     HoldsQuantized(written, loc[r].audio_data)
              /\ (pc[r] = "simple_wav" /\ pc'[r] = "check_wav" /\ env'[r].fault2 = "none") =>
                     HoldsQuantized(written, simple_wav(SimpleWavMs))]_vars

\* a file written by a successful encoding holds a sample at a bound of the
\* range: a value beyond the range has been clipped
C10_ClippedSampleWritten ==
    \E r \in Requests :
        /\ pc[r] = "check_wav"
        /\ loc[r].wav_success
        /\ LET content == fs[Path(loc[r].filename, "wav")]
           IN  /\ IsWav(content)
               /\ \E f \in 1..getnframes(content) :
                      sample_at(content, f) \in {PcmMax, -PcmMax}

\* C11 as stated: the duration of a successful result is the number of
\* frames of the container divided by its sample rate, exactly.
C11_DurationExact ==
    \A r \in Requests :
        (Done(r) /\ Succeeded(ret[r])) =>
            LET content == fs[ret[r].wav_path]
            IN  /\ IsWav(content)
                /\ ret[r].duration * content.framerate = 10 * getnframes(content)

\* C11, amended: the duration reported by a successful render is the number
\* of frames of the container divided by its sample rate, rounded to one
\* decimal place (so within 0.05 s of it), and 2.0 s when the container
\* cannot be read back; the requested tempo and the score enter it only
\* through the frames written.
C11_DurationRounded ==
    [][\A r \in Requests :
          (pc[r] = "read_duration" /\ pc'[r] = "done") =>
              LET content == fs[Path(loc[r].filename, "wav")]
              IN  IF IsWav(content)
                  THEN 2 * Abs(10 * getnframes(content)
                               - ret'[r].duration * content.framerate)
                           <= content.framerate
                  ELSE ret'[r].duration = FallbackDurationDs]_vars

\* a successful result whose duration is not the exact quotient: the
\* rounding has acted
C11_RoundedResult ==
    \E r \in Requests :
        /\ Done(r)
        /\ Succeeded(ret[r])
        /\ IsWav(fs[ret[r].wav_path])
        /\ ret[r].duration * fs[ret[r].wav_path].framerate
               # 10 * getnframes(fs[ret[r].wav_path])

\* C12: the profile lookup is total and has no side effects: whenever a
\* render has looked a name up, what it holds is a whole profile, the table's
\* entry for a name of the table and exactly the default profile for any
\* other name ("Kazoo"), whatever was looked up before.
C12_LookupTotal ==
    \A r \in Requests :
        loc[r].params # NoParams =>
            /\ DOMAIN loc[r].params = DOMAIN default_params
            /\ req[r].instrument \in DOMAIN instrument_params =>
                   loc[r].params = instrument_params[req[r].instrument]
            /\ req[r].instrument \notin DOMAIN instrument_params =>
                   loc[r].params = default_params

\* a render has looked up a name that is not in the table and holds the
\* default profile
C12_UnknownNameLookedUp ==
    \E r \in Requests :
        /\ req[r].instrument = "Kazoo"
        /\ loc[r].params = default_params

\* C13: in direct extraction a rest advances the time cursor by its
\* duration: every note or chord starts at the sum of the durations of all
\* the items before it, rests included.
C13_RestAdvancesCursor ==
    \A r \in Requests :
        pc[r] = "filter_staff" =>
            LET notes_data == loc[r].notes_data
                frames == [j \in DOMAIN notes_data |->
                             note_frames_of(notes_data[j], req[r].tempo)]
            IN  \A k \in DOMAIN notes_data :
                    notes_data[k].type # "rest" =>
                        current_frame_at(notes_data, k, req[r].tempo)
                            = SumTo(frames, 1, k - 1)

C15_NotatedDuration ==
    \A r \in Requests :
        pc[r] = "filter_staff" =>
            Cardinality(DOMAIN loc[r].audio_data)
                = Frames(SumTo([k \in DOMAIN req[r].staff |->
                                  NotatedMs(req[r].staff[k], req[r].tempo)],
                               1, Len(req[r].staff)))

\* the direct path has synthesized a half note at 60 BPM into 2.0 s of frames
C15_HalfNoteAtSixty ==
    \E r \in Requests :
        /\ pc[r] = "filter_staff"
        /\ req[r].tempo = 60
        /\ Len(req[r].staff) = 1
        /\ req[r].staff[1].kind = "note"
        /\ req[r].staff[1].num = 1
        /\ req[r].staff[1].den = 2
        /\ Cardinality(DOMAIN loc[r].audio_data) = Frames(2000)

\* C20: in both synthesis paths the buffer is longer than the end frame
\* (start + duration) of every event: it has a tail of at least one frame.
C20_BufferHasTail ==
    \A r \in Requests :
        /\ pc[r] = "filter_midi" =>
               \A k \in DOMAIN loc[r].midi_notes :
                   Cardinality(DOMAIN loc[r].audio_data)
                       > Frames(loc[r].midi_notes[k].start_time)
                         + Frames(loc[r].midi_notes[k].duration)
        /\ pc[r] = "filter_staff" =>
               \A k \in DOMAIN loc[r].notes_data :
                   loc[r].notes_data[k].type # "rest" =>
                       Cardinality(DOMAIN loc[r].audio_data)
                           > current_frame_at(loc[r].notes_data, k, req[r].tempo)
                             + note_frames_of(loc[r].notes_data[k], req[r].tempo)

\* C16: the engine cache serves a request from a stored entry only when the
\* request and the request the entry was computed for agree on question
\* text, validation level, instrument, exercise type and correct-option
\* text.
C16_EntryOnlyForSameRequest ==
    (engine.last # NoCall /\ engine.last.hit) =>
        LET asked == engine.last.call
            stored == engine.results[engine.last.returned].computed_for
        IN  /\ stored.question = asked.question
            /\ stored.validation_level = asked.validation_level
            /\ stored.instrument = asked.instrument
            /\ stored.exercise_type = asked.exercise_type
            /\ correct_token(stored.question_data) = correct_token(asked.question_data)

(***************************************************************************)
(* The timeline of a MIDI file, read from its messages.                    *)
(***************************************************************************)
\* a message that opens a note, a message that closes one
IsOpen(msg) == msg.type = "note_on" /\ msg.velocity > 0

IsClose(msg) == msg.type = "note_off" \/ (msg.type = "note_on" /\ msg.velocity = 0)

\* the tick at which message i of a track stands: the sum of the deltas up to it
AbsTick(track, i) == SumTo([j \in DOMAIN track |-> track[j].time], 1, i)

\* the seconds (in ms) between two ticks of the timeline of a file, every
\* tick converted at the tempo of the last set_tempo at or before it, in
\* whichever track it is, and at 120 BPM before the first
RECURSIVE TimeFrom(_, _, _)
TimeFrom(mid, from, to) ==
    LET events == {<<AbsTick(mid.tracks[t], i), tempo2bpm(mid.tracks[t][i].tempo)>> :
                      <<t, i>> \in {p \in (DOMAIN mid.tracks) \X (1..MaxMsgs + 1) :
                                       /\ p[2] \in DOMAIN mid.tracks[p[1]]
                                       /\ mid.tracks[p[1]][p[2]].type = "set_tempo"}}
        past == {e \in events : e[1] <= from}
        bpm == IF past = {} THEN DefaultTempo
               ELSE (CHOOSE e \in past : \A o \in past : o[1] <= e[1])[2]
        ahead == {e[1] : e \in {o \in events : o[1] > from /\ o[1] < to}}
        next == IF ahead = {} THEN to ELSE -SetMax({-tick : tick \in ahead})
    IN  IF from >= to THEN 0
        ELSE ((next - from) * 60000) \div (mid.ticks_per_beat * bpm)
             + TimeFrom(mid, next, to)

\* the notes a file opens, as <<track, message>>, and the k-th of them in
\* the order of the file
Opens(mid) ==
    {p \in (DOMAIN mid.tracks) \X (1..MaxMsgs + 1) :
        p[2] \in DOMAIN mid.tracks[p[1]] /\ IsOpen(mid.tracks[p[1]][p[2]])}

OpenAt(mid, k) ==
    CHOOSE p \in Opens(mid) :
        Cardinality({q \in Opens(mid) :
                        q[1] < p[1] \/ (q[1] = p[1] /\ q[2] < p[2])}) = k - 1

\* the message that closes the note opened by message i of a track: the
\* next message of the track for the same note number, when it is a close;
\* 0 when the note is never closed
CloseOf(track, i) ==
    LET later == {j \in DOMAIN track :
                     /\ j > i
                     /\ track[j].note = track[i].note
                     /\ (IsOpen(track[j]) \/ IsClose(track[j]))}
        j == -SetMax({-l : l \in later})
    IN  IF later # {} /\ IsClose(track[j]) THEN j ELSE 0

\* artifact extraction has read the file of request r, a file of GivenFiles
\* in which some note is opened
Extracted(r) ==
    /\ pc[r] = "synth_midi"
    /\ fs[Path(loc[r].filename, "mid")] \in GivenFiles
    /\ Opens(fs[Path(loc[r].filename, "mid")]) # {}

\* C17: artifact extraction emits only the notes that were closed: a note-on
\* with no matching note-off (or zero-velocity note-on) before the end of
\* its track gives no event.
C17_UnmatchedDropped ==
    \A r \in Requests :
        Extracted(r) =>
            LET mid == fs[Path(loc[r].filename, "mid")]
                closed == {p \in Opens(mid) : CloseOf(mid.tracks[p[1]], p[2]) # 0}
            IN  closed # {} => Len(loc[r].midi_notes) = Cardinality(closed)

\* C18: every closed note has the duration max(closeTime - openTime, 0.1 s).
\* Stated for files whose tempo is set at tick 0 or never.
C18_DurationFloor ==
    \A r \in Requests :
        Extracted(r) =>
            LET mid == fs[Path(loc[r].filename, "mid")]
            IN  mid.tracks[1][1].time = 0 =>
                    \A k \in DOMAIN loc[r].midi_notes :
                        LET track == mid.tracks[OpenAt(mid, k)[1]]
                            i == OpenAt(mid, k)[2]
                            j == CloseOf(track, i)
                            elapsed == TimeFrom(mid, AbsTick(track, i), AbsTick(track, j))
                        IN  j # 0 =>
                                loc[r].midi_notes[k].duration
                                    = IF elapsed < MinNoteMs THEN MinNoteMs ELSE elapsed

\* C19: the time of every event is the time of its tick on the timeline of
\* the file, each tick converted at the tempo in effect there (120 BPM
\* before the first tempo event): a tempo change does not alter the time of
\* ticks before it, in its own track or in another.
C19_TempoFromItsTickOn ==
    \A r \in Requests :
        Extracted(r) =>
            LET mid == fs[Path(loc[r].filename, "mid")]
            IN  \A k \in DOMAIN loc[r].midi_notes :
                    LET p == OpenAt(mid, k)
                    IN  loc[r].midi_notes[k].start_time
                            = TimeFrom(mid, 0, AbsTick(mid.tracks[p[1]], p[2]))

C22_FramesAreSums ==
    \A r \in Requests :
        /\ pc[r] = "filter_midi" =>
               LET midi_notes == loc[r].midi_notes
                   params == get_instrument_parameters(req[r].instrument)
               IN  \A f \in DOMAIN loc[r].audio_data :
                       loc[r].audio_data[f]
                           = SumTo([k \in DOMAIN midi_notes |->
                                      IF f - Frames(midi_notes[k].start_time)
                                            \in 0..(Frames(midi_notes[k].duration) - 1)
                                      THEN MidiSample(midi_notes[k], k,
                                                      f - Frames(midi_notes[k].start_time),
                                                      params, env[r].seed1)
                                      ELSE 0],
                                   1, Len(midi_notes))
        /\ pc[r] = "filter_staff" =>
               LET notes_data == loc[r].notes_data
                   params == get_instrument_parameters(req[r].instrument)
                   start(k) == current_frame_at(notes_data, k, req[r].tempo)
               IN  \A f \in DOMAIN loc[r].audio_data :
                       loc[r].audio_data[f]
                           = SumTo([k \in DOMAIN notes_data |->
                                      IF /\ notes_data[k].type # "rest"
                                         /\ f - start(k)
                                              \in 0..(note_frames_of(notes_data[k],
                                                                     req[r].tempo) - 1)
                                      THEN StaffSample(notes_data[k], k, start(k),
                                                       f - start(k), req[r].tempo,
                                                       params, env[r].seed2)
                                      ELSE 0],
                                   1, Len(notes_data))

\* the artifact path has synthesized a chord: a frame that two events of
\* different pitch cover, one of which gave it a sample that is not 0
C22_ChordSuperposed ==
    \E r \in Requests :
        /\ pc[r] = "filter_midi"
        /\ \E k1, k2 \in DOMAIN loc[r].midi_notes :
              /\ loc[r].midi_notes[k1].note # loc[r].midi_notes[k2].note
              /\ \E f \in DOMAIN loc[r].audio_data :
                    /\ f - Frames(loc[r].midi_notes[k1].start_time)
                          \in 0..(Frames(loc[r].midi_notes[k1].duration) - 1)
                    /\ f - Frames(loc[r].midi_notes[k2].start_time)
                          \in 0..(Frames(loc[r].midi_notes[k2].duration) - 1)
                    /\ MidiSample(loc[r].midi_notes[k2], k2,
                                  f - Frames(loc[r].midi_notes[k2].start_time),
                                  get_instrument_parameters(req[r].instrument),
                                  env[r].seed1) # 0
                    /\ MidiSample(loc[r].midi_notes[k1], k1,
                                  f - Frames(loc[r].midi_notes[k1].start_time),
                                  get_instrument_parameters(req[r].instrument),
                                  env[r].seed1) # 0

\* C23: the buffer of the additive synthesizer does not depend on the order
\* of the events: every permutation of the event list gives the same
\* number of frames and, with the noise left out, the same value in every
\* frame.
C23_OrderIndependent ==
    \A r \in Requests :
        pc[r] = "filter_midi" =>
            LET midi_notes == loc[r].midi_notes
                n == Len(midi_notes)
                quiet == [get_instrument_parameters(req[r].instrument)
                            EXCEPT !.noise_level = 0]
            IN  \A order \in Permutations(1..n) :
                    LET permuted == [k \in 1..n |-> midi_notes[order[k]]]
                    IN  /\ midi_total_frames(permuted) = Cardinality(DOMAIN loc[r].audio_data)
                        /\ \A f \in DOMAIN loc[r].audio_data :
                               midi_frame(0, f, permuted, 1, n, quiet, 0)
                                   = midi_frame(0, f, midi_notes, 1, n, quiet, 0)

\* the synthesizer has been given two events that start together and end
\* apart, and has written a buffer for them
C23_OverlappingEvents ==
    \E r \in Requests :
        /\ pc[r] = "filter_midi"
        /\ Len(loc[r].midi_notes) >= 2
        /\ loc[r].midi_notes[1].start_time = loc[r].midi_notes[2].start_time
        /\ loc[r].midi_notes[1].duration # loc[r].midi_notes[2].duration
        /\ \E f \in DOMAIN loc[r].audio_data : loc[r].audio_data[f] # 0

\* C25: every profile of the timbre table, the default one included, and
\* every profile a synthesis has looked up, has attack, decay and release
\* fractions in [0, 1] that add up to 1 at most, a sustain level in [0, 1]
\* and an overall amplitude of 1 at most.
C25_ProfilesWellFormed ==
    LET WellFormed(p) ==
            /\ p.attack_time \in 0..Scale
            /\ p.decay_time \in 0..Scale
            /\ p.release_time \in 0..Scale
            /\ p.attack_time + p.decay_time + p.release_time <= Scale
            /\ p.sustain_level \in 0..Scale
            /\ p.overall_amplitude <= Scale
    IN  /\ WellFormed(default_params)
        /\ \A name \in DOMAIN instrument_params : WellFormed(instrument_params[name])
        /\ \A r \in Requests : loc[r].params # NoParams => WellFormed(loc[r].params)

\* a synthesis has looked up the profile of the trumpet, one that differs
\* from the default profile in its envelope
C25_TrumpetLookedUp ==
    \E r \in Requests :
        /\ loc[r].params # NoParams
        /\ loc[r].params = instrument_params["Trumpet"]
        /\ loc[r].params.attack_time # default_params.attack_time

(***************************************************************************)
(* The notes a synthesis is about to shape, or has shaped.                 *)
(***************************************************************************)
\* the frame counts of the notes of request r, each with the profile its
\* envelope is computed from: duration_frames on the artifact path,
\* note_frames on the direct path
ShapedNotes(r) ==
    IF pc[r] \in {"synth_midi", "filter_midi"}
    THEN {<<Frames(loc[r].midi_notes[k].duration),
            get_instrument_parameters(req[r].instrument)>> :
             k \in DOMAIN loc[r].midi_notes}
    ELSE IF pc[r] \in {"synth_staff", "filter_staff"}
    THEN {<<note_frames_of(loc[r].notes_data[k], req[r].tempo),
            get_instrument_parameters(req[r].instrument)>> :
             k \in {j \in DOMAIN loc[r].notes_data : loc[r].notes_data[j].type # "rest"}}
    ELSE {}

\* C26: for a note of any frame count and any profile the envelope is 0 at
\* frame 0, is the sustain level of the profile at every frame from
\* attackFrames + decayFrames up to frameCount - releaseFrames, and is
\* within [0, 1] at every frame.
C26_EnvelopeShape ==
    \A r \in Requests :
        \A note \in ShapedNotes(r) :
            LET n == note[1]
                params == note[2]
                attack_time == (n * params.attack_time) \div Scale
                decay_time == (n * params.decay_time) \div Scale
                release_time == (n * params.release_time) \div Scale
            IN  /\ n > 0 => Envelope(0, n, params) = 0
                /\ \A i \in 0..(n - 1) :
                       /\ Envelope(i, n, params) \in 0..Scale
                       /\ (attack_time + decay_time <= i /\ i < n - release_time) =>
                              Envelope(i, n, params) = params.sustain_level

\* C27: the envelope never divides by zero: at every frame of every note the
\* branch taken is the sustain branch, which divides by nothing, or a phase
\* whose truncated length is not 0.
C27_NoZeroPhaseTaken ==
    \A r \in Requests :
        \A note \in ShapedNotes(r) :
            LET n == note[1]
                params == note[2]
            IN  \A i \in 0..(n - 1) :
                    LET phase == envelope_phase(i, n, params)
                    IN  /\ phase = "attack" => (n * params.attack_time) \div Scale # 0
                        /\ phase = "decay" => (n * params.decay_time) \div Scale # 0
                        /\ phase = "release" => (n * params.release_time) \div Scale # 0

\* a note whose truncated attack length is 0 has been synthesized into a
\* buffer
C27_ZeroAttackSynthesized ==
    \E r \in Requests :
        /\ pc[r] \in {"filter_midi", "filter_staff"}
        /\ DOMAIN loc[r].audio_data # {}
        /\ \E note \in ShapedNotes(r) :
              /\ note[1] > 0
              /\ (note[1] * note[2].attack_time) \div Scale = 0

\* C28: on one engine, after any sequence of generate_notation and
\* clear_cache calls, hits + misses = total_requests; and when the last
\* call was clear_cache (or there was none) the cache is empty and the
\* three counters are 0.
C28_StatsBalanced ==
    /\ engine.cache_stats.hits + engine.cache_stats.misses
           = engine.cache_stats.total_requests
    /\ engine.last = NoCall =>
           /\ DOMAIN engine.cache = {}
           /\ engine.cache_stats = [hits |-> 0, misses |-> 0, total_requests |-> 0]

\* clear_cache has just been called on an engine that had made a result
C28_ClearedAfterUse ==
    /\ engine.last = NoCall
    /\ engine.results # <<>>
    /\ engine.calls >= 2

\* C29: every entry of the cache is a result with success = true, and a
\* generate_notation call that ends in an error result leaves the cache as
\* it was, with no entry for its key: a repeat of the request is a miss.
C29_OnlySuccessCached ==
    [][/\ \A key \in DOMAIN engine'.cache :
              engine'.results[engine'.cache[key]].success
       /\ (/\ engine'.last # NoCall
           /\ engine'.calls # engine.calls
           /\ ~engine'.results[engine'.last.returned].success) =>
              /\ engine'.cache = engine.cache
              /\ generate_cache_key(engine'.last.call) \notin DOMAIN engine'.cache]_vars

\* a call has just ended in an error result on an engine whose cache holds
\* the result of an earlier call
C29_ErrorNextToEntry ==
    /\ engine.last # NoCall
    /\ ~engine.results[engine.last.returned].success
    /\ DOMAIN engine.cache # {}

\* C30: a call whose key is in the cache is a hit: it runs no pipeline
\* stage and makes no result, adds 1 to hits and to total_requests and to
\* nothing else, and returns the stored result with cached = True, while
\* the results handed out before it, that of the original miss included,
\* still read as they did, cached = False.
C30_HitLeavesFirstResult ==
    [][\A call \in Calls :
          (/\ generate_cache_key(call) \in DOMAIN engine.cache
           /\ engine'.calls # engine.calls
           /\ engine'.last # NoCall
           /\ engine'.last.call = call) =>
              /\ engine'.last.hit
              /\ engine'.last.returned = engine.cache[generate_cache_key(call)]
              /\ Len(engine'.results) = Len(engine.results)
              /\ engine'.cache_stats =
                     [engine.cache_stats EXCEPT !.hits = @ + 1, !.total_requests = @ + 1]
              /\ engine'.cache = engine.cache
              /\ \A result \in DOMAIN engine.results :
                     ~engine.results[result].cached =>
                         ~engine'.results[result].cached]_vars

====
